---- MODULE Spec2Model ----
(***************************************************************************)
(* Photon-mapping integrator of the Monte Carlo ray tracer: the photon     *)
(* tracer (pass 1), the aggregation into the photon maps, the radiance     *)
(* estimator's use of the maps (pass 2), the interaction's normals and the *)
(* emission budget.                                                        *)
(*                                                                         *)
(* Numbers.  Fluxes are integers.  caustic_factor is the rational          *)
(* caustic_factor / CFDen.  A probability is a pair (numerator,            *)
(* denominator); Random::trial(p) can come out TRUE only when p > 0 and    *)
(* FALSE only when p < 1.                                                  *)
(***************************************************************************)
EXTENDS Integers, Sequences, FiniteSets, TLC

VARIABLES
    variant,             \* which emitPhoton is compiled: "current" (depth in the ray) or "earlier" (ray_depth parameter)
    caustic_factor,      \* pm.at("caustic_factor"), numerator over CFDen
    max_ray_depth,       \* Integrator::max_ray_depth
    min_ray_depth,       \* Integrator::min_ray_depth
    use_shadow_photons,  \* pm "use_shadow_photons"
    num_threads,         \* Integrator::num_threads
    scene,               \* what scene.intersect can return: a miss (open), the types and flux ratios of its hits, the runs of its scan rays, the emittances and survival probabilities (in tenths) of the materials
    work_queue,          \* WorkQueue<EmissionWork>: the chunks not yet handed out
    worker,              \* per worker thread: position in its lambda, its chunk, its ray
    direct_vecs,         \* per-thread photon vectors
    indirect_vecs,
    caustic_vecs,
    shadow_vecs,
    main,                \* position of the constructor (main thread)
    print_thread,        \* position of the progress thread
    maps,                \* the four Octree objects of the constructor: the photons inserted, in order
    linear_maps,         \* the four LinearOctree members
    num_photons,         \* num_direct_photons, num_indirect_photons, num_caustic_photons, num_shadow_photons
    last_hit,            \* per thread, what its last emitPhoton call saw and appended (history)
    appended,            \* per kind, the photons the workers have appended to the vectors (history)
    isect,               \* Interaction's arguments: the ray's direction, the surface's normals at the hit, its material
    interaction,         \* the Interaction constructed from them
    emissions,           \* pm.at("emissions")
    photon_emissions,    \* photon_emissions, once multiplied by caustic_factor
    emissives,           \* scene.emissives: for each light, compAdd(emittance * area)
    work_vec,            \* work_vec
    budget,              \* position of the constructor in its emission budgeting, and its locals
    octree,              \* the points of an octree, leaf by leaf
    knn,                 \* a knnSearch in progress: its arguments, heap and result
    k_nearest_photons,   \* k_nearest_photons
    direct_visualization,\* direct_visualization
    render,              \* for each render thread, the sampleRay call it is about to make
    sampled,             \* history: what the latest sampleRay call did
    runs                 \* two runs of pass 1 with one worker: for each, its engine, worker and maps

vars == <<variant, caustic_factor, max_ray_depth, min_ray_depth, use_shadow_photons,
          num_threads, scene, work_queue, worker, direct_vecs, indirect_vecs, caustic_vecs,
          shadow_vecs, main, print_thread, maps, linear_maps, num_photons, last_hit,
          appended, isect, interaction, emissions, photon_emissions, emissives,
          work_vec, budget, octree, knn, k_nearest_photons, direct_visualization,
          render, sampled, runs>>

config_vars == <<variant, caustic_factor, max_ray_depth, min_ray_depth,
                 use_shadow_photons, num_threads, scene>>

vec_vars == <<direct_vecs, indirect_vecs, caustic_vecs, shadow_vecs>>

main_vars == <<main, print_thread, maps, linear_maps, num_photons>>

hist_vars == <<last_hit, appended>>

pass1_vars == <<config_vars, work_queue, worker, vec_vars, main_vars, hist_vars>>

interaction_vars == <<isect, interaction>>

budget_vars == <<emissions, photon_emissions, emissives, work_vec, budget>>

knn_vars == <<octree, knn>>

\* What the steps of pass 1, of the Interaction constructor, of the emission
\* budgeting and of a search leave alone.
estimate_vars == <<k_nearest_photons, direct_visualization, render, sampled>>

pass1_aside == <<interaction_vars, budget_vars, knn_vars, estimate_vars, runs>>
interaction_aside == <<pass1_vars, budget_vars, knn_vars, estimate_vars, runs>>
budget_aside == <<pass1_vars, interaction_vars, knn_vars, estimate_vars, runs>>
knn_aside == <<pass1_vars, interaction_vars, budget_vars, estimate_vars, runs>>
estimate_aside == <<interaction_vars, budget_vars, knn_vars, runs>>
runs_aside == <<pass1_vars, interaction_vars, budget_vars, knn_vars, estimate_vars>>

---------------------------------------------------------------------------
\* Bounds of the model.

\* Denominator of caustic_factor: caustic_factor ranges over CFDen/CFDen .. MaxCausticFactor/CFDen.
CFDen == 2
MaxCausticFactor == 4
\* Largest Integrator::max_ray_depth of the photon-tracing specification.
MaxRayDepth == 3
\* Largest Integrator::min_ray_depth.
MaxMinRayDepth == 1
\* Longest run of successive intersections along a shadow-photon scan ray.
MaxScan == 3

Kinds == {"direct", "indirect", "caustic", "shadow"}

Types == {"REFLECT", "REFRACT", "DIFFUSE"}

\* max_channel(new_flux) / max_channel(flux), in tenths: 0, 1/2 or 1.
Rhos == {0, 5, 10}

Min(a, b) == IF a <= b THEN a ELSE b

RECURSIVE Pow(_, _)
Pow(b, e) == IF e = 0 THEN 1 ELSE b * Pow(b, e - 1)

\* Flux of one emitted photon: a multiple of CFDen and of 9^depth, so that the
\* divisions by non_caustic_reject and by survive = 0.9 are exact.
PhotonFlux == CFDen * Pow(9, MaxRayDepth)

---------------------------------------------------------------------------
\* Random::trial(p), p = num/den: the outcomes a uniform draw in [0,1) allows.
TrialOutcomes(num, den) ==
    IF num >= den THEN {TRUE} ELSE IF num <= 0 THEN {FALSE} ELSE BOOLEAN

\* non_caustic_reject = 1.0 / caustic_factor, as the pair numerator, denominator.
non_caustic_reject == <<CFDen, caustic_factor>>

\* The outcomes of Random::trial(non_caustic_reject).
RejectTrial == TrialOutcomes(non_caustic_reject[1], non_caustic_reject[2])

\* flux / non_caustic_reject
ScaledFlux(flux) == (flux * non_caustic_reject[2]) \div non_caustic_reject[1]

---------------------------------------------------------------------------
\* Ray transforms: what each does to the specular flag.  event is history: the
\* transform applied last.

reflectDiffuse_KeepsFlag(ray) == ray

reflectDiffuse(ray) == [ray EXCEPT !.specular = FALSE, !.event = "reflectDiffuse"]

reflectSpecular(ray) == [ray EXCEPT !.specular = TRUE, !.event = "reflectSpecular"]

refractSpecular_TirClears(ray, tir) ==
    [ray EXCEPT !.specular = ~tir,
                !.event = IF tir THEN "refractSpecular_critical" ELSE "refractSpecular"]

\* tir: the critical-angle branch (k < 0), a specular reflection.
refractSpecular(ray, tir) ==
    [ray EXCEPT !.specular = TRUE,
                !.event = IF tir THEN "refractSpecular_critical" ELSE "refractSpecular"]

\* The ray handed to the first emitPhoton call of an emission.
EmittedRay == [depth |-> 0, specular |-> FALSE, path |-> <<>>, event |-> "none"]

\* The ray that continues the path after a hit of the given type: one bounce
\* deeper, transformed by the type's scattering event.  path is history: the types
\* of the hits so far.
NewRay_SameDepth(ray, type, tir) ==
    LET r == [ray EXCEPT !.path = Append(ray.path, type)]
    IN  CASE type = "DIFFUSE" -> reflectDiffuse(r)
          [] type = "REFLECT" -> reflectSpecular(r)
          [] type = "REFRACT" -> refractSpecular(r, tir)

NewRay(ray, type, tir) ==
    LET r == [ray EXCEPT !.depth = ray.depth + 1, !.path = Append(ray.path, type)]
    IN  CASE type = "DIFFUSE" -> reflectDiffuse(r)
          [] type = "REFLECT" -> reflectSpecular(r)
          [] type = "REFRACT" -> refractSpecular(r, tir)

---------------------------------------------------------------------------
\* emitPhoton: the photon vectors a hit appends to.  t1 and t2 are the outcomes of
\* the first and the second Random::trial(non_caustic_reject) of the chain.

emitPhotonStore_NoElse(ray, type, t1, t2) ==
    IF type # "DIFFUSE" THEN {}
    ELSE (IF ray.depth = 0 /\ t1 THEN {"direct"} ELSE {})
         \cup (IF ray.specular THEN {"caustic"}
               ELSE IF t2 THEN {"indirect"}
               ELSE {})

emitPhotonStore_CurrentChain(ray, type, t1, t2) ==
    IF type # "DIFFUSE" THEN {}
    ELSE IF ray.depth = 0 /\ t1 THEN {"direct"}
    ELSE IF ray.specular THEN {"caustic"}
    ELSE IF t2 THEN {"indirect"}
    ELSE {}

emitPhotonStore_EarlierChain(ray, type, t1, t2) ==
    IF type # "DIFFUSE" THEN {}
    ELSE IF ray.depth = 0
         THEN (IF t1 THEN {"direct"} ELSE {})
         ELSE (IF ray.specular THEN {"caustic"}
               ELSE IF t2 THEN {"indirect"}
               ELSE {})

emitPhotonStore(ray, type, t1, t2) ==
    IF variant = "current"
    THEN emitPhotonStore_CurrentChain(ray, type, t1, t2)
    ELSE emitPhotonStore_EarlierChain(ray, type, t1, t2)

\* The flux of the photon appended to a vector of the given kind.
emitPhotonStoredFlux_AllScaled(kind, flux) == ScaledFlux(flux)

emitPhotonStoredFlux(kind, flux) ==
    IF kind = "caustic" THEN flux ELSE ScaledFlux(flux)

\* Whether the hit spawns a shadow-photon scan (the same in both variants).
emitPhotonSpawnsScan(ray, type, t1) ==
    \/ type = "DIFFUSE" /\ ray.depth = 0 /\ t1
    \/ type = "REFLECT" /\ ray.depth = 0 /\ t1

RECURSIVE createShadowPhotons_CutsAtMaxDepth(_, _, _)
createShadowPhotons_CutsAtMaxDepth(isects, depth, origin) ==
    IF ~use_shadow_photons \/ depth >= max_ray_depth THEN <<>>
    ELSE IF isects = <<>> THEN <<>>
    ELSE (IF Head(isects)
          THEN <<[flux |-> 0, position |-> Append(origin, depth), path |-> <<>>]>>
          ELSE <<>>)
         \o createShadowPhotons_CutsAtMaxDepth(Tail(isects), depth + 1, origin)

\* createShadowPhotons(ray, thread, depth): isects is the run of successive
\* intersections along the scan ray (for each, whether its material
\* can_diffusely_reflect), followed by a miss.  The result is the shadow photons
\* appended to shadow_vecs[thread], in order; n numbers the intersections.
RECURSIVE createShadowPhotons(_, _, _)
createShadowPhotons(isects, depth, origin) ==
    IF ~use_shadow_photons \/ depth > max_ray_depth THEN <<>>
    ELSE IF isects = <<>> THEN <<>>
    ELSE (IF Head(isects)
          THEN <<[flux |-> 0, position |-> Append(origin, depth), path |-> <<>>]>>
          ELSE <<>>)
         \o createShadowPhotons(Tail(isects), depth + 1, origin)

\* The runs of intersections a scan ray can meet.
ScanRuns == UNION {[1 .. n -> BOOLEAN] : n \in 0 .. MaxScan}

\* survive = min(depth > min_ray_depth ? 0.9 : 1.0, rho), in tenths.
Survive(depth, rho) == Min(IF depth > min_ray_depth THEN 9 ELSE 10, rho)


\* new_flux / survive, for a photon that survived.
SurvivingFlux(flux, depth, rho) == (flux * rho) \div Survive(depth, rho)

---------------------------------------------------------------------------
\* Interaction.

\* Largest coordinate of the direction and normal vectors (in the plane).
MaxCoord == 1
\* Denominator of the Fresnel reflectance R, the transparency T and the draw p.
ProbDen == 2

Vectors == ((-MaxCoord .. MaxCoord) \X (-MaxCoord .. MaxCoord)) \ {<<0, 0>>}

Dot(a, b) == a[1] * b[1] + a[2] * b[2]

Neg(a) == <<-a[1], -a[2]>>

Materials ==
    [opaque : BOOLEAN, perfect_mirror : BOOLEAN, complex_ior : BOOLEAN,
     rough_specular : BOOLEAN, transparency : 0 .. ProbDen]

selectType_Inclusive(material, R, p) ==
    IF material.perfect_mirror \/ material.complex_ior THEN "REFLECT"
    ELSE IF R >= p THEN "REFLECT"
    ELSE IF R * ProbDen + (ProbDen - R) * material.transparency >= p * ProbDen THEN "REFRACT"
    ELSE "DIFFUSE"

\* Interaction::selectType, with R = Fresnel::dielectric(...) and p = Random::unit()
\* over ProbDen.
selectType(material, R, p) ==
    IF material.perfect_mirror \/ material.complex_ior THEN "REFLECT"
    ELSE IF R > p THEN "REFLECT"
    ELSE IF R * ProbDen + (ProbDen - R) * material.transparency > p * ProbDen THEN "REFRACT"
    ELSE "DIFFUSE"

\* inside, n2: the side of the surface the ray is on.
InteractionInside(cos_theta, material) == ~(cos_theta < 0 \/ material.opaque)

\* The shading normal before the flip: the interpolated normal unless it lies on
\* the other side of the ray than the geometric normal.
InteractionShadingNormal(direction, normal, interpolated, interpolate) ==
    LET cos_theta == Dot(direction, normal)
    IN  IF interpolate
        THEN IF (cos_theta < 0) # (Dot(direction, interpolated) < 0)
             THEN normal
             ELSE interpolated
        ELSE normal

\* if (cos_theta > 0.0) { normal = -normal; shading_normal = -shading_normal; }
InteractionFlip(cos_theta, n) == IF cos_theta > 0 THEN Neg(n) ELSE n

\* Interaction::Interaction(isect, ray)
Interaction(in, material, R, p) ==
    LET cos_theta == Dot(in.direction, in.normal)
        inside == InteractionInside(cos_theta, material)
        shading_normal ==
            InteractionShadingNormal(in.direction, in.normal, in.interpolated, in.interpolate)
        type == selectType(material, R, p)
    IN  [constructed |-> TRUE,
         material |-> material,
         R |-> R,
         p |-> p,
         normal |-> InteractionFlip(cos_theta, in.normal),
         shading_normal |-> InteractionFlip(cos_theta, shading_normal),
         inside |-> inside,
         n2 |-> IF inside THEN "external_ior" ELSE "ior",
         type |-> type,
         cs |-> IF material.rough_specular /\ type # "DIFFUSE"
                THEN "specular_normal" ELSE "shading_normal"]

NoMaterial ==
    [opaque |-> TRUE, perfect_mirror |-> FALSE, complex_ior |-> FALSE,
     rough_specular |-> FALSE, transparency |-> 0]

NoInteraction ==
    [constructed |-> FALSE, material |-> NoMaterial, R |-> 0, p |-> 0,
     normal |-> <<0, 0>>, shading_normal |-> <<0, 0>>,
     inside |-> FALSE, n2 |-> "ior", type |-> "DIFFUSE", cs |-> "shading_normal"]

NoInteractionYet ==
    /\ isect = [direction |-> <<0, 0>>, normal |-> <<0, 0>>, interpolated |-> <<0, 0>>,
                interpolate |-> FALSE]
    /\ interaction = NoInteraction

---------------------------------------------------------------------------
\* State of the worker threads and of the main thread.

Threads == 0 .. num_threads - 1

\* An EmissionWork chunk.
EmissionWork(light, num_emissions, photon_flux) ==
    [light |-> light, num_emissions |-> num_emissions, photon_flux |-> photon_flux]

\* A thread that has been declared in the threads vector and not created yet.
UnbornWorker ==
    [pc |-> "unborn", work |-> EmissionWork(1, 0, 0), i |-> 0, emitted |-> 0,
     ray |-> EmittedRay, flux |-> 0]

NoHit ==
    [thread |-> 0, emission |-> 0, outcome |-> "none", ray |-> EmittedRay,
     type |-> "none", flux |-> 0, photons |-> <<>>, scanned |-> FALSE, isects |-> <<>>]

EmptyVecs == [t \in Threads |-> <<>>]

EmptyMaps == [k \in Kinds |-> <<>>]

---------------------------------------------------------------------------
\* The octree and its k-nearest-neighbour search, on one axis.

\* Leaf capacity, largest k and largest search radius.
MaxNodeData == 2
MaxK == 2
MaxSearchRadius == 2

\* The leaves of the tree: the interval each covers.
Leaves == <<[lo |-> 0, hi |-> 1], [lo |-> 2, hi |-> 3]>>

Positions == Leaves[1].lo .. Leaves[Len(Leaves)].hi

Distance2(p, q) == (p - q) * (p - q)

\* Squared distance from q to the box of a leaf.
BoxDistance2(leaf, q) ==
    IF q < leaf.lo THEN Distance2(leaf.lo, q)
    ELSE IF q > leaf.hi THEN Distance2(leaf.hi, q)
    ELSE 0

SearchResult(position, distance2) == [position |-> position, distance2 |-> distance2]

\* The heap with one more result, kept in ascending order of distance2.
RECURSIVE HeapInsert(_, _)
HeapInsert(heap, result) ==
    IF heap = <<>> THEN <<result>>
    ELSE IF result.distance2 < Head(heap).distance2 THEN <<result>> \o heap
    ELSE <<Head(heap)>> \o HeapInsert(Tail(heap), result)

knnPush_Unbounded(search, position) ==
    LET d2 == Distance2(position, search.q)
    IN  IF d2 <= search.r2
        THEN [search EXCEPT !.heap = HeapInsert(search.heap, SearchResult(position, d2))]
        ELSE search

\* A point of a leaf is tested: pushed if within r2; beyond k results the worst
\* is popped and r2 becomes the distance2 of the new worst.
knnPush(search, position) ==
    LET d2 == Distance2(position, search.q)
        pushed == HeapInsert(search.heap, SearchResult(position, d2))
        popped == SubSeq(pushed, 1, Len(pushed) - 1)
    IN  IF d2 > search.r2 THEN search
        ELSE IF Len(pushed) > search.k
             THEN [search EXCEPT !.heap = popped, !.r2 = popped[Len(popped)].distance2]
             ELSE [search EXCEPT !.heap = pushed]

RECURSIVE knnLeaf(_, _)
knnLeaf(search, points) ==
    IF points = <<>> THEN search
    ELSE knnLeaf(knnPush(search, Head(points)), Tail(points))

NoResults == <<>>

NoSearch ==
    /\ octree = [l \in DOMAIN Leaves |-> <<>>]
    /\ knn = [pc |-> "returned", q |-> 0, k |-> 1, r_max |-> 0, r2 |-> 0, heap |-> <<>>,
              visited |-> DOMAIN Leaves, result |-> NoResults]

\* The search moves to the nearest leaf it has not visited, skips it if its box
\* is farther than r2 and tests its points otherwise.
knnVisit ==
    /\ knn.pc = "search"
    /\ \E l \in DOMAIN Leaves \ knn.visited :
         /\ \A m \in DOMAIN Leaves \ knn.visited :
              BoxDistance2(Leaves[l], knn.q) <= BoxDistance2(Leaves[m], knn.q)
         /\ knn' = IF BoxDistance2(Leaves[l], knn.q) > knn.r2
                   THEN [knn EXCEPT !.visited = @ \cup {l}]
                   ELSE [knnLeaf(knn, octree[l]) EXCEPT !.visited = @ \cup {l}]
    /\ UNCHANGED <<knn_aside, octree>>

\* The heap is returned as a vector in ascending order.
knnReturn ==
    /\ knn.pc = "search"
    /\ knn.visited = DOMAIN Leaves
    /\ knn' = [knn EXCEPT !.pc = "returned", !.result = knn.heap]
    /\ UNCHANGED <<knn_aside, octree>>

---------------------------------------------------------------------------
\* Pass 2: sampleRay against the linear maps.  A photon is reduced to its position,
\* a position to the leaf it lies in.

\* Number of render threads and of photons in a map.
MaxRenderThreads == 2
MaxMapPhotons == 1

RenderThreads == 1 .. MaxRenderThreads

\* The positions of photons: one per leaf; the surface the camera paths hit lies
\* at the first of them.
Sites == {Leaves[l].lo : l \in DOMAIN Leaves}
HitSites == {Leaves[1].lo}

\* max_radius and max_caustic_radius, smaller than the distance between two sites.
max_radius == 1
max_caustic_radius == 1

\* linear_map.knnSearch(position, k, r): the search over the one array of the map.
knnSearch(map, position, k, r) ==
    knnLeaf([q |-> position, k |-> k, r2 |-> r * r, heap |-> <<>>],
            [i \in DOMAIN map |-> map[i].position]).heap

\* linear_map.radiusEmpty(position, r)
radiusEmpty(map, position, r) ==
    \A i \in DOMAIN map : Distance2(map[i].position, position) > r * r

hasShadowPhotons_Anywhere(lmaps, position) == lmaps.shadow # <<>>

\* hasShadowPhotons(interaction)
hasShadowPhotons(lmaps, position) == ~radiusEmpty(lmaps.shadow, position, max_radius)

evaluateDirect_IgnoresDirectMap(lmaps, position) ==
    ~(use_shadow_photons /\ hasShadowPhotons(lmaps, position))

\* evaluateDirect: TRUE iff Integrator::sampleDirect is called.
evaluateDirect(lmaps, position) ==
    ~(/\ use_shadow_photons
      /\ hasShadowPhotons(lmaps, position)
      /\ radiusEmpty(lmaps.direct, position, max_radius))

\* The locals of a call next to the maps they were read from.
Frame(lmaps, indirect_photons) == [linear_maps |-> lmaps, indirect_photons |-> indirect_photons]

clear_Aliased(frame) ==
    [frame EXCEPT !.indirect_photons = <<>>, !.linear_maps.indirect = <<>>]

\* indirect_photons.clear(): the vector returned by the search is emptied.
clear(frame) == [frame EXCEPT !.indirect_photons = <<>>]

TerminationAttempt_NeverUnderfilled(lmaps, position) ==
    LET indirect_photons == knnSearch(lmaps.indirect, position, k_nearest_photons, max_radius)
        direct_photons == knnSearch(lmaps.direct, position, k_nearest_photons, max_radius)
        frame == Frame(lmaps, indirect_photons)
    IN  IF direct_photons # <<>>
        THEN [branch |-> "estimate", frame |-> frame, direct_photons |-> direct_photons]
        ELSE IF /\ ~direct_visualization
                /\ use_shadow_photons
                /\ ~hasShadowPhotons(lmaps, position)
             THEN [branch |-> "no_direct", frame |-> clear(frame),
                   direct_photons |-> direct_photons]
             ELSE [branch |-> "estimate", frame |-> frame,
                   direct_photons |-> direct_photons]

\* The termination attempt of a diffuse hit (the else branch of the test on
\* direct_visualization, depth, specular and min_bounce_distance).
TerminationAttempt(lmaps, position) ==
    LET indirect_photons == knnSearch(lmaps.indirect, position, k_nearest_photons, max_radius)
        direct_photons == knnSearch(lmaps.direct, position, k_nearest_photons, max_radius)
        frame == Frame(lmaps, indirect_photons)
    IN  IF Len(indirect_photons) = k_nearest_photons \/ direct_visualization
        THEN IF direct_photons # <<>>
             THEN [branch |-> "estimate", frame |-> frame, direct_photons |-> direct_photons]
             ELSE IF /\ ~direct_visualization
                     /\ use_shadow_photons
                     /\ ~hasShadowPhotons(lmaps, position)
                  THEN [branch |-> "no_direct", frame |-> clear(frame),
                        direct_photons |-> direct_photons]
                  ELSE [branch |-> "estimate", frame |-> frame,
                        direct_photons |-> direct_photons]
        ELSE [branch |-> "no_indirect", frame |-> clear(frame), direct_photons |-> <<>>]

\* hasShadowPhoton(intersect) of the earlier variant.
hasShadowPhoton(lmaps, position) ==
    use_shadow_photons
      /\ knnSearch(lmaps.shadow, position, k_nearest_photons, max_radius) # <<>>

\* What the earlier variant's sampleRay does at a diffuse hit: it goes on when the
\* ray comes from the camera or a specular event or the hit has shadow photons,
\* and estimates from the maps otherwise.
EarlierDiffuseHit(lmaps, ray, position) ==
    IF ~direct_visualization
         /\ (ray.depth = 0 \/ ray.specular \/ hasShadowPhoton(lmaps, position))
    THEN [branch |-> "continue", frame |-> Frame(lmaps, <<>>), direct_photons |-> <<>>]
    ELSE [branch |-> "estimate",
          frame |-> Frame(lmaps, knnSearch(lmaps.indirect, position, k_nearest_photons,
                                           max_radius)),
          direct_photons |-> knnSearch(lmaps.direct, position, k_nearest_photons, max_radius)]

DiffuseHit_IgnoresVisualization(lmaps, ray, position, far) ==
    IF ray.depth = 0 \/ ray.specular \/ far
    THEN [branch |-> "continue", frame |-> Frame(lmaps, <<>>), direct_photons |-> <<>>]
    ELSE TerminationAttempt(lmaps, position)

\* What sampleRay does at a diffuse hit.
DiffuseHit(lmaps, ray, position, far) ==
    IF variant = "earlier" THEN EarlierDiffuseHit(lmaps, ray, position)
    ELSE IF ~direct_visualization /\ (ray.depth = 0 \/ ray.specular \/ far)
    THEN [branch |-> "continue", frame |-> Frame(lmaps, <<>>), direct_photons |-> <<>>]
    ELSE TerminationAttempt(lmaps, position)

\* Whether a continuing diffuse hit calls sampleDirect: the earlier variant always does.
CallsSampleDirect(lmaps, position) ==
    IF variant = "earlier" THEN TRUE ELSE evaluateDirect(lmaps, position)

emittance_Unconditional(ray, material_emittance) == material_emittance

\* emittance = (ray.depth == 0 || ray.specular) ? material->emittance : 0
emittance(ray, material_emittance) ==
    IF ray.depth = 0 \/ ray.specular THEN material_emittance ELSE 0

\* survive, in tenths: 1 - absorb, where absorb is 1 - reflect_probability beyond
\* min_ray_depth and 0 up to it.
survive(ray, reflect_probability) ==
    IF ray.depth > min_ray_depth THEN reflect_probability ELSE 10

\* x / survive
Over(x, s) == (x * 10) \div s

\* What sampleRay returns at a REFLECT or REFRACT hit of a ray that comes from a
\* diffuse reflection: emittance / survive, and 0 in the earlier variant.
DiffuseArrivalReturn(ray, material_emittance, reflect_probability) ==
    IF variant = "earlier" THEN 0
    ELSE Over(emittance(ray, material_emittance), survive(ray, reflect_probability))

NotSampled ==
    [thread |-> 0, ray |-> EmittedRay, type |-> "none", position |-> 0, branch |-> "none",
     caustic_photons |-> <<>>, indirect_photons |-> <<>>, direct_photons |-> <<>>,
     sample_direct |-> FALSE, recursed |-> FALSE, material_emittance |-> 0,
     emittance |-> 0, radiance |-> 0]

NoRender ==
    /\ k_nearest_photons = 1
    /\ direct_visualization = FALSE
    /\ render = [t \in RenderThreads |-> [pc |-> "done", ray |-> EmittedRay]]
    /\ sampled = NotSampled

\* One call of sampleRay by a render thread; a recursive call is the thread's
\* next call, with the new ray (whose history of hits is not kept here).
sampleRay(t) ==
    /\ render[t].pc = "call"
    /\ LET ray == render[t].ray
           return(branch) ==
               /\ render' = [render EXCEPT ![t].pc = "done"]
               /\ sampled' = [NotSampled EXCEPT !.thread = t, !.ray = ray, !.branch = branch]
               /\ UNCHANGED linear_maps
       IN  \/ /\ ray.depth = max_ray_depth
              /\ return("bias")
           \/ /\ ray.depth # max_ray_depth
              /\ \E exit \in {"miss", "absorbed"} : return(exit)
           \/ /\ ray.depth # max_ray_depth
              /\ \E type \in Types, position \in HitSites, far \in BOOLEAN,
                    material_emittance \in scene.emittances,
                    reflect_probability \in scene.survives :
                   /\ (type = "DIFFUSE" /\ variant = "current") \/ ~far
                   /\ LET hit == [NotSampled EXCEPT
                                    !.thread = t, !.ray = ray, !.type = type,
                                    !.position = position,
                                    !.material_emittance = material_emittance,
                                    !.emittance = emittance(ray, material_emittance)]
                          new_ray == [NewRay(ray, type, FALSE) EXCEPT !.path = <<>>, !.event = "none"]
                          diffuse == DiffuseHit(linear_maps, ray, position, far)
                          recurse == diffuse.branch # "estimate"
                      IN  IF type # "DIFFUSE"
                          THEN /\ IF ray.depth # 0 /\ ~ray.specular
                                  THEN /\ render' = [render EXCEPT ![t].pc = "done"]
                                       /\ sampled' =
                                            [hit EXCEPT
                                               !.branch = "emittance",
                                               !.radiance =
                                                   DiffuseArrivalReturn(ray, material_emittance,
                                                                        reflect_probability)]
                                  ELSE /\ render' = [render EXCEPT ![t].ray = new_ray]
                                       /\ sampled' = [hit EXCEPT !.branch = "specular",
                                                                 !.recursed = TRUE]
                               /\ UNCHANGED linear_maps
                          ELSE /\ render' = IF recurse
                                            THEN [render EXCEPT ![t].ray = new_ray]
                                            ELSE [render EXCEPT ![t].pc = "done"]
                               /\ sampled' =
                                    [hit EXCEPT
                                       !.branch = diffuse.branch,
                                       !.caustic_photons =
                                           knnSearch(linear_maps.caustic, position,
                                                     k_nearest_photons, max_caustic_radius),
                                       !.indirect_photons = diffuse.frame.indirect_photons,
                                       !.direct_photons = diffuse.direct_photons,
                                       !.sample_direct =
                                           recurse /\ CallsSampleDirect(linear_maps, position),
                                       !.recursed = recurse]
                               /\ linear_maps' = diffuse.frame.linear_maps
    /\ UNCHANGED <<estimate_aside, config_vars, work_queue, worker, vec_vars, main, print_thread,
                   maps, num_photons, hist_vars, k_nearest_photons, direct_visualization>>

---------------------------------------------------------------------------
\* Emission budgeting and work packaging (the constructor, before the threads).

EPW == 100000

\* static_cast<size_t>(x) of a non-negative quotient a / b.
Truncate(a, b) == a \div b

\* The nearest integer to a / b, halves away from zero.
Round(a, b) == (2 * a + b) \div (2 * b)

RECURSIVE Sum(_)
Sum(seq) == IF seq = <<>> THEN 0 ELSE Head(seq) + Sum(Tail(seq))

\* static_cast<size_t>(photon_emissions * caustic_factor)
ScaledEmissions(target) == Truncate(target * caustic_factor, CFDen)

num_light_emissions_Rounded(N, light_flux, total_add_flux) ==
    Round(N * light_flux, total_add_flux)

\* static_cast<size_t>(photon_emissions * photon_emissions_share), with
\* photon_emissions_share = compAdd(light_flux) / total_add_flux.
num_light_emissions(N, light_flux, total_add_flux) ==
    Truncate(N * light_flux, total_add_flux)

RECURSIVE Package_WholeChunksOnly(_, _, _, _)
Package_WholeChunksOnly(light, count, n, photon_flux) ==
    IF count + EPW > n THEN <<>>
    ELSE <<EmissionWork(light, EPW, photon_flux)>>
           \o Package_WholeChunksOnly(light, count + EPW, n, photon_flux)

\* The packaging loop of one light: while (count != num_light_emissions) ...
RECURSIVE Package(_, _, _, _)
Package(light, count, n, photon_flux) ==
    IF count = n THEN <<>>
    ELSE LET chunk == IF count + EPW > n THEN n - count ELSE EPW
         IN  <<EmissionWork(light, chunk, photon_flux)>>
               \o Package(light, count + chunk, n, photon_flux)

\* photon_emissions = static_cast<size_t>(photon_emissions * caustic_factor), and
\* the loop that sums total_add_flux.
ScaleEmissions ==
    /\ budget.pc = "scale"
    /\ photon_emissions' = ScaledEmissions(emissions)
    /\ budget' = [budget EXCEPT !.pc = "lights", !.total_add_flux = Sum(emissives)]
    /\ UNCHANGED <<budget_aside, emissions, emissives, work_vec>>

\* One iteration of the loop over scene.emissives: the light's share, its photon
\* flux (light_flux / num_light_emissions, kept as the pair) and its chunks.
BudgetLight ==
    /\ budget.pc = "lights"
    /\ IF budget.light <= Len(emissives)
       THEN LET light_flux == emissives[budget.light]
                n == num_light_emissions(photon_emissions, light_flux, budget.total_add_flux)
            IN  /\ work_vec' = work_vec \o Package(budget.light, 0, n, <<light_flux, n>>)
                /\ budget' = [budget EXCEPT !.light = budget.light + 1,
                                            !.num_light_emissions = Append(@, n)]
       ELSE /\ budget' = [budget EXCEPT !.pc = "done"]
            /\ UNCHANGED work_vec
    /\ UNCHANGED <<budget_aside, emissions, photon_emissions, emissives>>

\* The budgeting is over (or of no interest).
Budgeted ==
    /\ emissions = 0
    /\ photon_emissions = 0
    /\ emissives = <<>>
    /\ work_vec = <<>>
    /\ budget = [pc |-> "done", light |-> 1, total_add_flux |-> 0,
                 num_light_emissions |-> <<>>]

---------------------------------------------------------------------------
\* The worker lambda.

\* work_queue.getWork(work): hands out the next chunk, or returns false when there
\* is none left, which ends the thread.
getWork(t) ==
    /\ worker[t].pc = "getWork"
    /\ IF work_queue = <<>>
       THEN /\ worker' = [worker EXCEPT ![t].pc = "done"]
            /\ UNCHANGED work_queue
       ELSE /\ worker' = [worker EXCEPT ![t].pc = "loop", ![t].work = Head(work_queue),
                                        ![t].i = 0]
            /\ work_queue' = Tail(work_queue)
    /\ UNCHANGED <<pass1_aside, config_vars, vec_vars, main_vars, hist_vars>>

\* for (size_t i = 0; i < work.num_emissions; i++): the test, and the body up to
\* the call of emitPhoton.
EmitLoop(t) ==
    /\ worker[t].pc = "loop"
    /\ IF worker[t].i < worker[t].work.num_emissions
       THEN worker' = [worker EXCEPT ![t].pc = "emitPhoton",
                                     ![t].emitted = worker[t].emitted + 1,
                                     ![t].ray = EmittedRay,
                                     ![t].flux = worker[t].work.photon_flux]
       ELSE worker' = [worker EXCEPT ![t].pc = "getWork"]
    /\ UNCHANGED <<pass1_aside, config_vars, work_queue, vec_vars, main_vars, hist_vars>>

\* The return of the outermost emitPhoton call: i++.
Returned(t) == [worker[t] EXCEPT !.pc = "loop", !.i = worker[t].i + 1]

\* The photon vectors after a hit has appended its photons to them.
Appended_FirstVector(vecs, t, kind, photons) ==
    LET mine == SelectSeq(photons, LAMBDA ph : ph.kind = kind)
    IN  [vecs EXCEPT ![0] = vecs[0] \o [n \in 1 .. Len(mine) |-> mine[n].photon]]

Appended(vecs, t, kind, photons) ==
    LET mine == SelectSeq(photons, LAMBDA ph : ph.kind = kind)
    IN  [vecs EXCEPT ![t] = vecs[t] \o [n \in 1 .. Len(mine) |-> mine[n].photon]]

\* One call of emitPhoton(ray, flux, thread): the depth test, the intersection, the
\* storage of the photon, the shadow-photon scan and the survival trial.  The call
\* it makes of itself is the next step of the thread.
emitPhoton(t) ==
    LET w == worker[t]
        ray == w.ray
        call == [thread |-> t, emission |-> w.emitted, outcome |-> "hit", ray |-> ray,
                 type |-> "none", flux |-> w.flux, photons |-> <<>>,
                 scanned |-> FALSE, isects |-> <<>>]
    IN
    /\ w.pc = "emitPhoton"
    /\ \/ /\ ray.depth = max_ray_depth
          /\ worker' = [worker EXCEPT ![t] = Returned(t)]
          /\ last_hit' = [last_hit EXCEPT ![t] = [call EXCEPT !.outcome = "bias"]]
          /\ UNCHANGED <<vec_vars, appended>>
       \/ /\ ray.depth # max_ray_depth
          /\ scene.open
          /\ worker' = [worker EXCEPT ![t] = Returned(t)]
          /\ last_hit' = [last_hit EXCEPT ![t] = [call EXCEPT !.outcome = "miss"]]
          /\ UNCHANGED <<vec_vars, appended>>
       \/ /\ ray.depth # max_ray_depth
          /\ \E type \in scene.types, rho \in scene.rhos :
             \E tir \in IF type = "REFRACT" THEN BOOLEAN ELSE {FALSE},
                t1 \in IF ray.depth = 0 /\ type # "REFRACT" THEN RejectTrial ELSE {FALSE},
                t2 \in IF type = "DIFFUSE" THEN RejectTrial ELSE {FALSE},
                s \in TrialOutcomes(Survive(ray.depth, rho), 10) :
               \E isects \in IF emitPhotonSpawnsScan(ray, type, t1) THEN scene.runs ELSE {<<>>} :
                 LET position == <<t, w.emitted, ray.depth>>
                     kinds == emitPhotonStore(ray, type, t1, t2)
                     stored == [k \in kinds |->
                                  [flux |-> emitPhotonStoredFlux(k, w.flux),
                                   position |-> position, path |-> ray.path]]
                     order == <<"direct", "caustic", "indirect">>
                     photons ==
                        [n \in 1 .. Len(SelectSeq(order, LAMBDA k : k \in kinds)) |->
                           LET k == SelectSeq(order, LAMBDA x : x \in kinds)[n]
                           IN  [kind |-> k, photon |-> stored[k]]]
                     scan == IF emitPhotonSpawnsScan(ray, type, t1)
                             THEN createShadowPhotons(isects, 0, position)
                             ELSE <<>>
                     shadows == [n \in 1 .. Len(scan) |-> [kind |-> "shadow", photon |-> scan[n]]]
                     all == photons \o shadows
                 IN  /\ direct_vecs' = Appended(direct_vecs, t, "direct", all)
                     /\ indirect_vecs' = Appended(indirect_vecs, t, "indirect", all)
                     /\ caustic_vecs' = Appended(caustic_vecs, t, "caustic", all)
                     /\ shadow_vecs' = Appended(shadow_vecs, t, "shadow", all)
                     /\ last_hit' = [last_hit EXCEPT
                                      ![t] = [call EXCEPT
                                                !.type = type, !.photons = all,
                                                !.scanned = emitPhotonSpawnsScan(ray, type, t1),
                                                !.isects = isects]]
                     /\ appended' = [k \in Kinds |-> appended[k] \cup
                                       {all[n].photon : n \in {m \in 1 .. Len(all) : all[m].kind = k}}]
                     /\ IF s
                        THEN worker' = [worker EXCEPT
                                          ![t].ray = NewRay(ray, type, tir),
                                          ![t].flux = SurvivingFlux(w.flux, ray.depth, rho)]
                        ELSE worker' = [worker EXCEPT ![t] = Returned(t)]
    /\ UNCHANGED <<pass1_aside, config_vars, work_queue, main_vars>>

---------------------------------------------------------------------------
\* The constructor (main thread) and the progress thread.

\* threads[thread] = std::make_unique<std::thread>(...): the thread starts running.
Spawn ==
    /\ main.pc = "spawn"
    /\ IF main.thread < num_threads
       THEN /\ worker' = [worker EXCEPT ![main.thread].pc = "getWork"]
            /\ main' = [main EXCEPT !.thread = main.thread + 1]
            /\ UNCHANGED print_thread
       ELSE /\ main' = [main EXCEPT !.pc = "join_print"]
            /\ print_thread' = [print_thread EXCEPT !.pc = "running"]
            /\ UNCHANGED worker
    /\ UNCHANGED <<pass1_aside, config_vars, work_queue, vec_vars, maps, linear_maps, num_photons, hist_vars>>

PrintProgress_NeverExits ==
    /\ print_thread.pc = "running"
    /\ UNCHANGED vars

\* while (!work_queue.empty()) { progress = work_queue.progress(); print; sleep }
PrintProgress ==
    /\ print_thread.pc = "running"
    /\ IF work_queue = <<>>
       THEN print_thread' = [print_thread EXCEPT !.pc = "done"]
       ELSE UNCHANGED print_thread
    /\ UNCHANGED <<pass1_aside, config_vars, work_queue, worker, vec_vars, main, maps, linear_maps,
                   num_photons, hist_vars>>

\* print_thread->join()
JoinPrint ==
    /\ main.pc = "join_print"
    /\ print_thread.pc = "done"
    /\ main' = [main EXCEPT !.pc = "join", !.thread = 0]
    /\ UNCHANGED <<pass1_aside, config_vars, work_queue, worker, vec_vars, print_thread, maps,
                   linear_maps, num_photons, hist_vars>>

\* thread->join() returns once the thread's lambda has returned.
join_NoWait(t) == TRUE

join(t) == worker[t].pc = "done"

\* for (auto& thread : threads) thread->join();
Join ==
    /\ main.pc = "join"
    /\ IF main.thread < num_threads
       THEN /\ join(main.thread)
            /\ main' = [main EXCEPT !.thread = main.thread + 1]
       ELSE main' = [main EXCEPT !.pc = "aggregate", !.thread = 0]
    /\ UNCHANGED <<pass1_aside, config_vars, work_queue, worker, vec_vars, print_thread, maps,
                   linear_maps, num_photons, hist_vars>>

\* insertAndPop(pvec, pmap): from the back, insert the last element and erase it.
RECURSIVE insertAndPop_SkipFirst(_, _)
insertAndPop_SkipFirst(pvec, pmap) ==
    IF Len(pvec) > 1
    THEN insertAndPop_SkipFirst(SubSeq(pvec, 1, Len(pvec) - 1), Append(pmap, pvec[Len(pvec)]))
    ELSE [pvec |-> <<>>, pmap |-> pmap]

RECURSIVE insertAndPop(_, _)
insertAndPop(pvec, pmap) ==
    IF Len(pvec) > 0
    THEN insertAndPop(SubSeq(pvec, 1, Len(pvec) - 1), Append(pmap, pvec[Len(pvec)]))
    ELSE [pvec |-> <<>>, pmap |-> pmap]

\* One iteration of the aggregation loop: the four vectors of one thread.
Aggregate ==
    /\ main.pc = "aggregate"
    /\ IF main.thread < num_threads
       THEN LET t == main.thread
                d == insertAndPop(direct_vecs[t], maps["direct"])
                i == insertAndPop(indirect_vecs[t], maps["indirect"])
                c == insertAndPop(caustic_vecs[t], maps["caustic"])
                s == insertAndPop(shadow_vecs[t], maps["shadow"])
            IN  /\ num_photons' =
                     [direct |-> num_photons["direct"] + Len(direct_vecs[t]),
                      indirect |-> num_photons["indirect"] + Len(indirect_vecs[t]),
                      caustic |-> num_photons["caustic"] + Len(caustic_vecs[t]),
                      shadow |-> num_photons["shadow"] + Len(shadow_vecs[t])]
                /\ maps' = [direct |-> d.pmap, indirect |-> i.pmap,
                            caustic |-> c.pmap, shadow |-> s.pmap]
                /\ direct_vecs' = [direct_vecs EXCEPT ![t] = d.pvec]
                /\ indirect_vecs' = [indirect_vecs EXCEPT ![t] = i.pvec]
                /\ caustic_vecs' = [caustic_vecs EXCEPT ![t] = c.pvec]
                /\ shadow_vecs' = [shadow_vecs EXCEPT ![t] = s.pvec]
                /\ main' = [main EXCEPT !.thread = t + 1]
       ELSE /\ main' = [main EXCEPT !.pc = "linearise"]
            /\ UNCHANGED <<vec_vars, maps, num_photons>>
    /\ UNCHANGED <<pass1_aside, config_vars, work_queue, worker, print_thread, linear_maps, hist_vars>>

\* LinearOctree<Photon>(octree): the same photons, in a linear array.
LinearOctree(map) == map

\* linear_caustic_map = LinearOctree<Photon>(caustic_map); ... (all four)
Linearise ==
    /\ main.pc = "linearise"
    /\ linear_maps' = [k \in Kinds |-> LinearOctree(maps[k])]
    /\ main' = [main EXCEPT !.pc = "done"]
    /\ UNCHANGED <<pass1_aside, config_vars, work_queue, worker, vec_vars, print_thread, maps,
                   num_photons, hist_vars>>

---------------------------------------------------------------------------
\* The random engine of a thread, and a whole pass 1 with one worker drawing from
\* it.  The scene is closed and of one material; a photon's position stands for
\* everything the draws decided about it.

\* Number of states of the engine, and of emissions in the one chunk of a run.
RngModulus == 8
MaxRunEmissions == 2

Seeds == 0 .. RngModulus - 1

\* The engine after Random::seed(seed) in run r.
Seeded_PerRun(seed, r) == (seed + r) % RngModulus

Seeded(seed, r) == seed

\* The engine after one draw.
RandomNext(engine) == (5 * engine + 3) % RngModulus

\* Random::trial(num / den) on the value just drawn: unit() < p.
RandomTrial(engine, num, den) == engine * den < num * RngModulus

RunMaterial ==
    [opaque |-> TRUE, perfect_mirror |-> FALSE, complex_ior |-> FALSE,
     rough_specular |-> FALSE, transparency |-> 0]

\* max_channel(new_flux) / max_channel(flux) at every hit of the scene, in tenths.
RunRho == 5

RunPositions == 1 .. 2

UnbornRun ==
    [pc |-> "unborn", seed |-> 0, engine |-> 0, i |-> 0, ray |-> EmittedRay, flux |-> 0,
     vecs |-> EmptyMaps, maps |-> EmptyMaps]

NoRuns == runs = [r \in RunPositions |-> UnbornRun]

\* The thread starts: Random::seed(std::random_device{}()).
RunSeed(r) ==
    /\ runs[r].pc = "unborn"
    /\ IF r = 1 THEN TRUE ELSE runs[r - 1].pc = "done"
    /\ \E seed \in Seeds :
         runs' = [runs EXCEPT ![r].pc = "loop", ![r].seed = seed,
                              ![r].engine = Seeded(seed, r)]
    /\ UNCHANGED runs_aside

\* The emission loop: the light's position (two draws) and direction (two draws).
RunEmit(r) ==
    /\ runs[r].pc = "loop"
    /\ runs' = IF runs[r].i < MaxRunEmissions
               THEN [runs EXCEPT
                       ![r].pc = "emitPhoton",
                       ![r].engine = RandomNext(RandomNext(RandomNext(RandomNext(@)))),
                       ![r].ray = EmittedRay,
                       ![r].flux = PhotonFlux]
               ELSE [runs EXCEPT ![r].pc = "aggregate"]
    /\ UNCHANGED runs_aside

\* One call of emitPhoton, its draws taken from the engine in the order of the
\* code: selectType, the trials of the storage chain, the survival trial.
RunEmitPhoton(r) ==
    /\ runs[r].pc = "emitPhoton"
    /\ LET run == runs[r]
           ray == run.ray
           returned == [run EXCEPT !.pc = "loop", !.i = run.i + 1]
           e1 == RandomNext(run.engine)
           type == selectType(RunMaterial, 1, (e1 * ProbDen) \div RngModulus)
           draws1 == type # "REFRACT" /\ ray.depth = 0
           e2 == IF draws1 THEN RandomNext(e1) ELSE e1
           t1 == draws1 /\ RandomTrial(e2, non_caustic_reject[1], non_caustic_reject[2])
           draws2 == /\ type = "DIFFUSE"
                     /\ ~ray.specular
                     /\ IF variant = "current" THEN ~t1 ELSE ray.depth # 0
           e3 == IF draws2 THEN RandomNext(e2) ELSE e2
           t2 == draws2 /\ RandomTrial(e3, non_caustic_reject[1], non_caustic_reject[2])
           e4 == RandomNext(e3)
           s == RandomTrial(e4, Survive(ray.depth, RunRho), 10)
           position == <<run.i, ray.depth, e1>>
           kinds == emitPhotonStore(ray, type, t1, t2)
           scan == IF emitPhotonSpawnsScan(ray, type, t1)
                   THEN createShadowPhotons(<<TRUE>>, 0, position)
                   ELSE <<>>
           stored(k) ==
               IF k = "shadow" THEN scan
               ELSE IF k \in kinds
                    THEN <<[flux |-> emitPhotonStoredFlux(k, run.flux),
                            position |-> position, path |-> ray.path]>>
                    ELSE <<>>
           hit == [run EXCEPT !.engine = e4,
                              !.vecs = [k \in Kinds |-> run.vecs[k] \o stored(k)]]
       IN  runs' = [runs EXCEPT
                      ![r] = IF ray.depth = max_ray_depth THEN returned
                             ELSE IF s
                                  THEN [hit EXCEPT !.ray = NewRay(ray, type, FALSE),
                                                   !.flux = SurvivingFlux(run.flux, ray.depth, RunRho)]
                                  ELSE [hit EXCEPT !.pc = "loop", !.i = run.i + 1]]
    /\ UNCHANGED runs_aside

\* The aggregation of the one thread's vectors.
RunAggregate(r) ==
    /\ runs[r].pc = "aggregate"
    /\ runs' = [runs EXCEPT
                  ![r].pc = "done",
                  ![r].maps = [k \in Kinds |-> insertAndPop(runs[r].vecs[k], runs[r].maps[k]).pmap],
                  ![r].vecs = [k \in Kinds |-> insertAndPop(runs[r].vecs[k], runs[r].maps[k]).pvec]]
    /\ UNCHANGED runs_aside

---------------------------------------------------------------------------
\* Pass 1.

\* Largest number of worker threads and of chunks in the queue of the pass-1
\* specification, whose chunks hold one emission each.
MaxThreads == 2
MaxChunks == 2

ChunkQueues ==
    UNION {[1 .. n -> {EmissionWork(1, 1, PhotonFlux)}] : n \in 0 .. MaxChunks}

InitPass1 ==
    /\ direct_vecs = EmptyVecs
    /\ indirect_vecs = EmptyVecs
    /\ caustic_vecs = EmptyVecs
    /\ shadow_vecs = EmptyVecs
    /\ main = [pc |-> "spawn", thread |-> 0]
    /\ print_thread = [pc |-> "unborn"]
    /\ maps = EmptyMaps
    /\ linear_maps = EmptyMaps
    /\ num_photons = [k \in Kinds |-> 0]
    /\ last_hit = [t \in Threads |-> NoHit]
    /\ appended = [k \in Kinds |-> {}]
    /\ NoInteractionYet
    /\ Budgeted
    /\ NoSearch
    /\ NoRender
    /\ NoRuns

\* The whole pass with several workers, on short paths in a scene of mirrors and
\* diffuse surfaces.
Init ==
    /\ variant = "current"
    /\ caustic_factor = CFDen
    /\ max_ray_depth = 2
    /\ min_ray_depth = 2
    /\ use_shadow_photons = TRUE
    /\ num_threads \in 1 .. MaxThreads
    /\ scene = [open |-> FALSE, types |-> {"DIFFUSE", "REFLECT"}, rhos |-> {10},
                runs |-> {<<TRUE>>},
                emittances |-> {0}, survives |-> {10}]
    /\ work_queue \in ChunkQueues
    /\ worker = [t \in Threads |-> UnbornWorker]
    /\ InitPass1

\* One worker tracing the emissions of its chunk, on paths up to MaxRayDepth.
InitEmit ==
    /\ variant \in {"current", "earlier"}
    /\ caustic_factor \in CFDen .. MaxCausticFactor
    /\ max_ray_depth \in 1 .. MaxRayDepth
    /\ min_ray_depth \in 0 .. MaxMinRayDepth
    /\ use_shadow_photons \in BOOLEAN
    /\ num_threads = 1
    /\ scene = [open |-> TRUE, types |-> Types, rhos |-> Rhos, runs |-> ScanRuns,
                emittances |-> {0}, survives |-> {10}]
    /\ work_queue = <<>>
    /\ InitPass1
    /\ worker = [t \in Threads |->
                   [UnbornWorker EXCEPT !.pc = "loop", !.work = EmissionWork(1, 1, PhotonFlux)]]

Next ==
    \/ Spawn
    \/ \E t \in Threads : getWork(t)
    \/ \E t \in Threads : EmitLoop(t)
    \/ \E t \in Threads : emitPhoton(t)
    \/ PrintProgress
    \/ JoinPrint
    \/ Join
    \/ Aggregate
    \/ Linearise

Spec == Init /\ [][Next]_vars

NextEmit ==
    \/ \E t \in Threads : EmitLoop(t)
    \/ \E t \in Threads : emitPhoton(t)

SpecEmit == InitEmit /\ [][NextEmit]_vars

\* The worker thread keeps running: a call it is about to make is made.
SpecEmitFair == SpecEmit /\ WF_vars(NextEmit)

---------------------------------------------------------------------------
\* The photon maps' contents by path history.

Specular == {"REFLECT", "REFRACT"}

\* The photons of a kind that are in a per-thread vector or in the octree.
Photons(vecs, kind) ==
    UNION {{vecs[t][n] : n \in DOMAIN vecs[t]} : t \in Threads}
      \cup {maps[kind][n] : n \in DOMAIN maps[kind]}

CausticPhotons == Photons(caustic_vecs, "caustic")

IndirectPhotons == Photons(indirect_vecs, "indirect")

\* The photons thread t's last emitPhoton call appended to the vectors of the given kinds.
LastStored(t, kinds) ==
    {n \in DOMAIN last_hit[t].photons : last_hit[t].photons[n].kind \in kinds}

\* C1 (as stated): every caustic photon's path from the light up to its hit
\* consists of specular events only; a path with an earlier diffuse bounce never
\* puts a photon into the caustic map.
C1_CausticPathSpecularOnly ==
    \A ph \in CausticPhotons : \A n \in DOMAIN ph.path : ph.path[n] \in Specular

\* C1 (amended): every caustic photon was stored on a diffuse hit at depth >= 1
\* whose immediately preceding scattering event was specular; earlier events of
\* the path may be diffuse.
C1_CausticLastEventSpecular ==
    /\ \A ph \in CausticPhotons :
         /\ Len(ph.path) >= 1
         /\ ph.path[Len(ph.path)] \in Specular
    /\ \A t \in Threads : LastStored(t, {"caustic"}) # {} => last_hit[t].type = "DIFFUSE"

\* A caustic photon of a light-diffuse-specular-diffuse path.
C1_Witness ==
    \E ph \in CausticPhotons : ph.path = <<"DIFFUSE", "REFLECT">>

\* C2: every indirect photon was stored on a diffuse hit that comes after at least
\* one diffuse bounce of its path; none is stored at the first hit from the light.
C2_IndirectAfterDiffuseBounce ==
    \A ph \in IndirectPhotons :
      /\ ph.path # <<>>
      /\ \E n \in DOMAIN ph.path : ph.path[n] = "DIFFUSE"

\* C3: a call of emitPhoton appends a photon to at most one of the vectors
\* direct, indirect, caustic of its thread, and appends at most one.
C3_AtMostOneMapPerHit ==
    [][\A t \in Threads :
         /\ Len(direct_vecs'[t]) >= Len(direct_vecs[t])
         /\ Len(indirect_vecs'[t]) >= Len(indirect_vecs[t])
         /\ Len(caustic_vecs'[t]) >= Len(caustic_vecs[t])
         => (Len(direct_vecs'[t]) - Len(direct_vecs[t]))
              + (Len(indirect_vecs'[t]) - Len(indirect_vecs[t]))
              + (Len(caustic_vecs'[t]) - Len(caustic_vecs[t])) <= 1]_vars

\* A hit that stored a photon and, by its scan, a shadow photon.
C3_Witness ==
    \E t \in Threads :
      /\ LastStored(t, {"direct", "indirect", "caustic"}) # {}
      /\ LastStored(t, {"shadow"}) # {}

\* C4: a DIFFUSE hit at depth >= 1 of a ray whose specular flag is set appends the
\* photon to the caustic vector, whatever the trials, with the flux it arrived
\* with, and appends nothing to the direct and indirect vectors.
C4_SpecularArrivalStoresCaustic ==
    [][\A t \in Threads :
         (/\ last_hit'[t] # last_hit[t]
          /\ last_hit'[t].outcome = "hit"
          /\ last_hit'[t].type = "DIFFUSE"
          /\ last_hit'[t].ray.depth >= 1
          /\ last_hit'[t].ray.specular)
         => /\ Len(caustic_vecs'[t]) = Len(caustic_vecs[t]) + 1
            /\ SubSeq(caustic_vecs'[t], 1, Len(caustic_vecs[t])) = caustic_vecs[t]
            /\ caustic_vecs'[t][Len(caustic_vecs'[t])].flux = last_hit'[t].flux
            /\ caustic_vecs'[t][Len(caustic_vecs'[t])].position
                 = <<t, last_hit'[t].emission, last_hit'[t].ray.depth>>
            /\ direct_vecs' = direct_vecs
            /\ indirect_vecs' = indirect_vecs]_vars

\* A caustic photon stored with caustic_factor > 1, where scaling would show.
C4_Witness ==
    \E t \in Threads :
      /\ last_hit[t].outcome = "hit"
      /\ last_hit[t].type = "DIFFUSE"
      /\ last_hit[t].ray.depth >= 1
      /\ last_hit[t].ray.specular
      /\ caustic_factor > CFDen
      /\ LastStored(t, {"caustic"}) # {}

\* C11: every photon path ends.  A call of emitPhoton either returns (at
\* max_ray_depth, on a miss, or after a failed survival trial) or calls itself
\* with a ray one bounce deeper; the depth never passes max_ray_depth, a call at
\* max_ray_depth stores nothing, and the worker gets back to its emission loop.
C11_PhotonPathTerminates ==
    /\ [](\A t \in Threads :
            /\ worker[t].ray.depth <= max_ray_depth
            /\ last_hit[t].outcome \in {"none", "bias", "miss", "hit"}
            /\ last_hit[t].outcome = "bias" <=> last_hit[t].ray.depth = max_ray_depth
            /\ last_hit[t].photons # <<>> =>
                  /\ last_hit[t].outcome = "hit"
                  /\ last_hit[t].ray.depth < max_ray_depth)
    /\ [][\A t \in Threads :
            worker[t].pc = "emitPhoton" /\ worker'[t] # worker[t] =>
              \/ /\ worker'[t].pc = "loop"
                 /\ last_hit'[t].ray = worker[t].ray
              \/ /\ worker'[t].pc = "emitPhoton"
                 /\ last_hit'[t].outcome = "hit"
                 /\ worker'[t].ray.depth = worker[t].ray.depth + 1]_vars
    /\ \A t \in 0 .. MaxThreads - 1 :
         (t \in Threads /\ worker[t].pc = "emitPhoton")
           ~> (t \in Threads /\ worker[t].pc = "loop")

\* A path that went on to max_ray_depth, storing a photon at its last hit.
C11_Witness ==
    \E t \in Threads :
      /\ worker[t].pc = "loop"
      /\ last_hit[t].outcome = "bias"
      /\ max_ray_depth = MaxRayDepth
      /\ \E ph \in appended["indirect"] \cup appended["caustic"] :
           ph.position[3] = max_ray_depth - 1

---------------------------------------------------------------------------
\* Aggregation.

Aggregated == main.pc \in {"linearise", "done"}

\* C5: after aggregation each octree holds exactly the photons the workers
\* appended to the vectors of its kind, each once; every vector is empty and each
\* count is the number of insertions into its map.
C5_AggregationExactlyOnce ==
    Aggregated =>
      /\ \A k \in Kinds :
           /\ {maps[k][n] : n \in DOMAIN maps[k]} = appended[k]
           /\ Len(maps[k]) = Cardinality(appended[k])
           /\ num_photons[k] = Len(maps[k])
      /\ \A t \in Threads :
           /\ direct_vecs[t] = <<>>
           /\ indirect_vecs[t] = <<>>
           /\ caustic_vecs[t] = <<>>
           /\ shadow_vecs[t] = <<>>

\* Aggregation of photons of all four kinds, appended by two workers.
C5_Witness ==
    /\ Aggregated
    /\ \A k \in Kinds : Len(maps[k]) >= 1
    /\ \E p \in appended["direct"], q \in appended["caustic"] : p.position[1] # q.position[1]

\* C7: the main thread drains the vectors only once the queue is empty and every
\* worker has returned from its lambda.
C7_AggregationAfterJoin ==
    main.pc \in {"aggregate", "linearise", "done"} =>
      /\ work_queue = <<>>
      /\ \A t \in Threads : worker[t].pc = "done"

\* The main thread starts draining what two workers appended.
C7_Witness ==
    /\ main.pc = "aggregate"
    /\ main.thread = 0
    /\ num_threads = MaxThreads
    /\ \A t \in Threads : direct_vecs[t] # <<>> \/ caustic_vecs[t] # <<>>

---------------------------------------------------------------------------
\* Interaction construction on its own.

Construct ==
    /\ ~interaction.constructed
    /\ \E material \in Materials, R \in 0 .. ProbDen, p \in 0 .. ProbDen - 1 :
         interaction' = Interaction(isect, material, R, p)
    /\ UNCHANGED <<interaction_aside, isect>>

\* No pass-1 thread runs.
Pass1Idle ==
    /\ variant = "current"
    /\ max_ray_depth = 1
    /\ min_ray_depth = 0
    /\ use_shadow_photons = TRUE
    /\ num_threads = 1
    /\ scene = [open |-> TRUE, types |-> Types, rhos |-> Rhos, runs |-> {<<>>},
                emittances |-> {0}, survives |-> {10}]
    /\ work_queue = <<>>
    /\ worker = [t \in Threads |-> UnbornWorker]
    /\ direct_vecs = EmptyVecs
    /\ indirect_vecs = EmptyVecs
    /\ caustic_vecs = EmptyVecs
    /\ shadow_vecs = EmptyVecs
    /\ main = [pc |-> "spawn", thread |-> 0]
    /\ print_thread = [pc |-> "unborn"]
    /\ maps = EmptyMaps
    /\ linear_maps = EmptyMaps
    /\ num_photons = [k \in Kinds |-> 0]
    /\ last_hit = [t \in Threads |-> NoHit]
    /\ appended = [k \in Kinds |-> {}]

InitInteraction ==
    /\ Pass1Idle
    /\ caustic_factor = CFDen
    /\ Budgeted
    /\ NoSearch
    /\ NoRender
    /\ NoRuns
    /\ isect \in [direction : Vectors, normal : Vectors, interpolated : Vectors,
                  interpolate : BOOLEAN]
    /\ interaction = NoInteraction

NextInteraction == Construct

SpecInteraction == InitInteraction /\ [][NextInteraction]_vars

\* C9: after construction the normal and the shading normal both face the ray:
\* dot(ray.direction, n) <= 0, for every sign of the two dot products and both
\* values of interpolate.
C9_NormalsFaceRay ==
    interaction.constructed =>
      /\ Dot(isect.direction, interaction.normal) <= 0
      /\ Dot(isect.direction, interaction.shading_normal) <= 0

---------------------------------------------------------------------------
\* Emission budgeting on its own.

\* Largest emission target, number of lights and flux of a light.
MaxTarget == 4
MaxLights == 2
MaxLightFlux == 3
\* Largest number of whole chunks of EPW emissions in a target.
MaxFullChunks == 2

\* The emission targets: a few photons, and targets around the multiples of EPW.
Targets ==
    (0 .. MaxTarget) \cup {m * EPW + d : m \in 1 .. MaxFullChunks, d \in {-1, 0, 1}}

InitBudget ==
    /\ Pass1Idle
    /\ caustic_factor \in CFDen .. MaxCausticFactor
    /\ NoInteractionYet
    /\ NoSearch
    /\ NoRender
    /\ NoRuns
    /\ emissions \in Targets
    /\ photon_emissions = emissions
    /\ emissives \in UNION {[1 .. n -> 1 .. MaxLightFlux] : n \in 1 .. MaxLights}
    /\ work_vec = <<>>
    /\ budget = [pc |-> "scale", light |-> 1, total_add_flux |-> 0,
                 num_light_emissions |-> <<>>]

NextBudget ==
    \/ ScaleEmissions
    \/ BudgetLight

SpecBudget == InitBudget /\ [][NextBudget]_vars

\* C10 (as stated): the number of emissions of light i is its share of the
\* emissions rounded to the nearest integer.
C10_ShareRounded ==
    \A i \in DOMAIN budget.num_light_emissions :
      budget.num_light_emissions[i]
        = Round(photon_emissions * emissives[i], budget.total_add_flux)

\* C10 (amended): the number of emissions of light i is its share of the scaled
\* emissions truncated toward zero.
C10_ShareTruncated ==
    \A i \in DOMAIN budget.num_light_emissions :
      LET n == budget.num_light_emissions[i]
          T == budget.total_add_flux
      IN  /\ n * T <= photon_emissions * emissives[i]
          /\ photon_emissions * emissives[i] < (n + 1) * T

\* A light whose share has a fractional part of at least one half.
C10_Witness ==
    \E i \in DOMAIN budget.num_light_emissions :
      2 * ((photon_emissions * emissives[i]) % budget.total_add_flux)
        >= budget.total_add_flux

---------------------------------------------------------------------------
\* A search on its own: any points, any query.

InitKnn ==
    /\ Pass1Idle
    /\ caustic_factor = CFDen
    /\ NoInteractionYet
    /\ Budgeted
    /\ NoRender
    /\ NoRuns
    /\ octree \in [DOMAIN Leaves -> UNION {[1 .. n -> Positions] : n \in 0 .. MaxNodeData}]
    /\ \A l \in DOMAIN Leaves : \A i \in DOMAIN octree[l] :
         octree[l][i] \in Leaves[l].lo .. Leaves[l].hi
    /\ \E q \in Positions, k \in 1 .. MaxK, r \in 0 .. MaxSearchRadius :
         knn = [pc |-> "search", q |-> q, k |-> k, r_max |-> r, r2 |-> r * r,
                heap |-> <<>>, visited |-> {}, result |-> NoResults]

NextKnn ==
    \/ knnVisit
    \/ knnReturn

SpecKnn == InitKnn /\ [][NextKnn]_vars

\* C8: a search returns at most k results, each within r_max of the query, in
\* ascending order of squared distance, so that the last is the farthest.
C8_KnnBoundedSortedWithinRadius ==
    knn.pc = "returned" =>
      /\ Len(knn.result) <= knn.k
      /\ \A i \in DOMAIN knn.result :
           /\ knn.result[i].distance2 <= knn.r_max * knn.r_max
           /\ knn.result[i].distance2 = Distance2(knn.result[i].position, knn.q)
           /\ knn.result[i].distance2 <= knn.result[Len(knn.result)].distance2
      /\ \A i, j \in DOMAIN knn.result :
           i < j => knn.result[i].distance2 <= knn.result[j].distance2

\* A search over more than k points within the radius, some beyond it, that
\* returned k results at different distances.
C8_Witness ==
    /\ knn.pc = "returned"
    /\ knn.k = MaxK
    /\ Len(knn.result) = knn.k
    /\ knn.result[1].distance2 < knn.result[Len(knn.result)].distance2
    /\ \E l \in DOMAIN Leaves : \E i \in DOMAIN octree[l] :
         Distance2(octree[l][i], knn.q) > knn.r_max * knn.r_max
    /\ \E l \in DOMAIN Leaves : \E i \in DOMAIN octree[l] :
         /\ Distance2(octree[l][i], knn.q) <= knn.r_max * knn.r_max
         /\ Distance2(octree[l][i], knn.q) > knn.result[Len(knn.result)].distance2

---------------------------------------------------------------------------
\* Pass 2 on its own: the constructor has returned, the render threads sample.

MapsOf(n) == UNION {[1 .. m -> [position : Sites]] : m \in 0 .. n}

InitEstimate ==
    /\ variant = "current"
    /\ caustic_factor = CFDen
    /\ max_ray_depth = 2
    /\ min_ray_depth = 0
    /\ use_shadow_photons \in BOOLEAN
    /\ num_threads = 1
    /\ scene = [open |-> TRUE, types |-> Types, rhos |-> Rhos, runs |-> {<<>>},
                emittances |-> {0}, survives |-> {10}]
    /\ work_queue = <<>>
    /\ worker = [t \in Threads |-> [UnbornWorker EXCEPT !.pc = "joined"]]
    /\ direct_vecs = EmptyVecs
    /\ indirect_vecs = EmptyVecs
    /\ caustic_vecs = EmptyVecs
    /\ shadow_vecs = EmptyVecs
    /\ main = [pc |-> "done", thread |-> num_threads]
    /\ print_thread = [pc |-> "joined"]
    /\ maps \in [Kinds -> MapsOf(MaxMapPhotons)]
    /\ ~use_shadow_photons => maps.shadow = <<>>
    /\ linear_maps = [k \in Kinds |-> LinearOctree(maps[k])]
    /\ num_photons = [k \in Kinds |-> Len(maps[k])]
    /\ last_hit = [t \in Threads |-> NoHit]
    /\ appended = [k \in Kinds |-> {}]
    /\ NoInteractionYet
    /\ Budgeted
    /\ NoSearch
    /\ NoRuns
    /\ k_nearest_photons \in 1 .. MaxK
    /\ direct_visualization \in BOOLEAN
    /\ render = [t \in RenderThreads |-> [pc |-> "call", ray |-> EmittedRay]]
    /\ sampled = NotSampled

NextEstimate == \E t \in RenderThreads : sampleRay(t)

SpecEstimate == InitEstimate /\ [][NextEstimate]_vars

\* C6: no step of pass 2 changes a photon map, linear or not.
C6_Pass2LeavesMapsAlone ==
    [][linear_maps' = linear_maps /\ maps' = maps]_vars

\* A call that found indirect photons and cleared its vector of them, while
\* another thread is in the middle of its path.
C6_Witness ==
    /\ sampled.branch = "no_direct"
    /\ sampled.indirect_photons = <<>>
    /\ linear_maps.indirect # <<>>
    /\ \E t \in RenderThreads :
         /\ t # sampled.thread
         /\ render[t].pc = "call"
         /\ render[t].ray.depth > 0

---------------------------------------------------------------------------
\* Two runs of pass 1 on the same scene and configuration, one worker each.

InitRuns ==
    /\ variant \in {"current", "earlier"}
    /\ caustic_factor \in CFDen .. MaxCausticFactor
    /\ max_ray_depth = 2
    /\ min_ray_depth = 0
    /\ use_shadow_photons = TRUE
    /\ num_threads = 1
    /\ scene = [open |-> FALSE, types |-> {"DIFFUSE", "REFLECT"}, rhos |-> {RunRho},
                runs |-> {<<TRUE>>},
                emittances |-> {0}, survives |-> {10}]
    /\ work_queue = <<>>
    /\ worker = [t \in Threads |-> UnbornWorker]
    /\ InitPass1
    /\ runs = [r \in RunPositions |-> UnbornRun]

NextRuns ==
    \/ \E r \in RunPositions : RunSeed(r)
    \/ \E r \in RunPositions : RunEmit(r)
    \/ \E r \in RunPositions : RunEmitPhoton(r)
    \/ \E r \in RunPositions : RunAggregate(r)

SpecRuns == InitRuns /\ [][NextRuns]_vars

BothRunsDone == \A r \in RunPositions : runs[r].pc = "done"

---------------------------------------------------------------------------
\* The branches of sampleRay at a diffuse hit.

\* The latest call made a termination attempt: it searched the indirect map.
Attempted ==
    /\ sampled.type = "DIFFUSE"
    /\ sampled.branch \in {"estimate", "no_direct", "no_indirect"}

\* The latest call went on with evaluateDiffuse.
Continued ==
    /\ sampled.type = "DIFFUSE"
    /\ sampled.branch \in {"continue", "no_direct", "no_indirect"}

\* What the searches of the latest call returned (the maps have not changed since).
IndirectFound ==
    knnSearch(linear_maps.indirect, sampled.position, k_nearest_photons, max_radius)

DirectFound ==
    knnSearch(linear_maps.direct, sampled.position, k_nearest_photons, max_radius)

\* C13 (as stated): a termination attempt whose indirect search returns fewer
\* than k photons falls back to continuing, in every configuration.
C13_UnderfilledFallsBack ==
    Attempted /\ Len(IndirectFound) < k_nearest_photons =>
      /\ sampled.branch = "no_indirect"
      /\ sampled.recursed

\* C13 (amended): it falls back to continuing when direct_visualization is
\* false; when direct_visualization is true it returns the density estimate
\* whatever the number of photons found.
C13_UnderfilledFallsBackUnlessVisualizing ==
    Attempted /\ Len(IndirectFound) < k_nearest_photons =>
      IF direct_visualization
      THEN sampled.branch = "estimate" /\ ~sampled.recursed
      ELSE /\ sampled.branch = "no_indirect"
           /\ sampled.recursed
           /\ sampled.indirect_photons = <<>>

\* A fallback with some indirect photons found, fewer than k.
C13_Witness ==
    /\ Attempted
    /\ ~direct_visualization
    /\ IndirectFound # <<>>
    /\ Len(IndirectFound) < k_nearest_photons
    /\ sampled.branch = "no_indirect"

\* A photon of the map lies within r of the latest hit.
Near(map, r) ==
    \E i \in DOMAIN map : Distance2(map[i].position, sampled.position) <= r * r

\* The latest call made a termination attempt, found k indirect photons and no
\* direct photon.
FullButNoDirect ==
    /\ Attempted
    /\ Len(IndirectFound) = k_nearest_photons
    /\ DirectFound = <<>>

\* C14 (as stated): with the indirect search full and no direct photon found,
\* sampleRay falls back to continuing when no shadow photon is within max_radius
\* of the hit, and takes direct as 0 only when one is, use_shadow_photons or not.
C14_NoDirectNoShadowFallsBack ==
    FullButNoDirect =>
      IF Near(linear_maps.shadow, max_radius)
      THEN sampled.branch = "estimate" /\ ~sampled.recursed
      ELSE sampled.branch = "no_direct" /\ sampled.recursed

\* C14 (amended): it falls back to continuing exactly when direct_visualization
\* is false, use_shadow_photons is true and no shadow photon is within max_radius
\* of the hit; otherwise it returns the estimate with direct = 0.
C14_NoDirectFallsBackOnlyWithShadowMap ==
    FullButNoDirect =>
      IF ~direct_visualization /\ use_shadow_photons /\ ~Near(linear_maps.shadow, max_radius)
      THEN sampled.branch = "no_direct" /\ sampled.recursed
      ELSE /\ sampled.branch = "estimate"
           /\ ~sampled.recursed
           /\ sampled.direct_photons = <<>>

\* A fallback at a hit with no shadow photon nearby, though the shadow map has one
\* elsewhere.
C14_Witness ==
    /\ FullButNoDirect
    /\ sampled.branch = "no_direct"
    /\ linear_maps.shadow # <<>>
    /\ linear_maps.direct # <<>>

\* C15: when sampleRay continues, direct is 0 without a call of sampleDirect
\* exactly when use_shadow_photons is set, a shadow photon lies within max_radius
\* of the hit and no direct photon does; otherwise sampleDirect is called.
C15_DirectShortCircuit ==
    /\ Continued =>
         (sampled.sample_direct <=>
            ~(/\ use_shadow_photons
              /\ Near(linear_maps.shadow, max_radius)
              /\ ~Near(linear_maps.direct, max_radius)))
    /\ sampled.sample_direct => Continued

\* A continuing call in the shadow that skipped sampleDirect, the direct map
\* holding a photon farther away.
C15_Witness ==
    /\ Continued
    /\ ~sampled.sample_direct
    /\ linear_maps.direct # <<>>
    /\ sampled.ray.depth > 0

---------------------------------------------------------------------------
\* selectType at one hit, from the front and from the back of the surface.

SelectSites ==
    {[direction |-> <<0, -1>>, normal |-> n, interpolated |-> n, interpolate |-> FALSE] :
        n \in {<<0, 1>>, <<0, -1>>}}

InitSelect ==
    /\ Pass1Idle
    /\ caustic_factor = CFDen
    /\ Budgeted
    /\ NoSearch
    /\ NoRender
    /\ NoRuns
    /\ isect \in SelectSites
    /\ interaction = NoInteraction

SpecSelect == InitSelect /\ [][NextInteraction]_vars

\* C16: selectType leaves exactly one type. A perfect mirror or a material with a
\* complex ior reflects; otherwise the type is REFLECT iff p < R, REFRACT iff
\* R <= p < R + (1 - R) T, and DIFFUSE otherwise, so that T = 0 never refracts
\* and T = 1 never reflects diffusely.
C16_SelectTypeThresholds ==
    interaction.constructed =>
      LET m == interaction.material
          R == interaction.R
          p == interaction.p
          T == m.transparency
          type == interaction.type
          below == p * ProbDen < R * ProbDen + (ProbDen - R) * T
      IN  /\ type \in {"REFLECT", "REFRACT", "DIFFUSE"}
          /\ IF m.perfect_mirror \/ m.complex_ior
             THEN type = "REFLECT"
             ELSE /\ type = "REFLECT" <=> p < R
                  /\ type = "REFRACT" <=> (R <= p /\ below)
                  /\ type = "DIFFUSE" <=> (R <= p /\ ~below)
                  /\ T = 0 => type # "REFRACT"
                  /\ T = ProbDen => type # "DIFFUSE"

\* The draw falls on the reflectance itself and the photon is refracted by a
\* partly transparent dielectric.
C16_Witness ==
    /\ interaction.constructed
    /\ ~interaction.material.perfect_mirror
    /\ ~interaction.material.complex_ior
    /\ interaction.p = interaction.R
    /\ interaction.R > 0
    /\ interaction.material.transparency \in 1 .. ProbDen - 1
    /\ interaction.type = "REFRACT"

\* C17: whatever transforms a ray has gone through, its specular flag is true iff
\* the last one was reflectSpecular or refractSpecular (the critical-angle branch
\* of refractSpecular included), and false iff the last one was reflectDiffuse.
C17_SpecularFlagIsLastEvent ==
    \A t \in Threads :
      LET ray == worker[t].ray
      IN  /\ ray.event = "none" <=> ray.path = <<>>
          /\ ray.event # "none" =>
               /\ ray.specular <=>
                    ray.event \in {"reflectSpecular", "refractSpecular",
                                   "refractSpecular_critical"}
               /\ ~ray.specular <=> ray.event = "reflectDiffuse"

\* A ray that was reflected diffusely and then met the critical angle inside a
\* dielectric.
C17_Witness ==
    \E t \in Threads :
      /\ worker[t].ray.path = <<"DIFFUSE", "REFRACT">>
      /\ worker[t].ray.event = "refractSpecular_critical"
      /\ worker[t].ray.specular

---------------------------------------------------------------------------
\* The whole pass of one worker with one emission, in a scene of diffuse surfaces
\* where a shadow-photon scan meets up to MaxScan further surfaces.

InitScan ==
    /\ variant = "current"
    /\ caustic_factor = CFDen
    /\ max_ray_depth \in 1 .. 2
    /\ min_ray_depth = 0
    /\ use_shadow_photons \in BOOLEAN
    /\ num_threads = 1
    /\ scene = [open |-> TRUE, types |-> {"DIFFUSE"}, rhos |-> {5}, runs |-> ScanRuns,
                emittances |-> {0}, survives |-> {10}]
    /\ work_queue = <<EmissionWork(1, 1, PhotonFlux)>>
    /\ worker = [t \in Threads |-> UnbornWorker]
    /\ InitPass1

SpecScan == InitScan /\ [][Next]_vars

\* The shadow photons of thread t's last emitPhoton call, in the order appended.
LastShadows(t) ==
    LET shadows == SelectSeq(last_hit[t].photons, LAMBDA ph : ph.kind = "shadow")
    IN  [n \in 1 .. Len(shadows) |-> shadows[n].photon]

\* C18: a shadow-photon scan stores exactly one shadow photon for each successive
\* intersection whose material can diffusely reflect, none for the others, up to
\* the first miss or until depth exceeds max_ray_depth; with use_shadow_photons
\* false nothing is stored and the shadow map is empty after pass 1.
C18_ShadowScan ==
    /\ \A t \in Threads :
         LET isects == last_hit[t].isects
             visited == {n \in 1 .. Len(isects) : n - 1 <= max_ray_depth}
             storing == IF use_shadow_photons /\ last_hit[t].scanned
                        THEN {n \in visited : isects[n]} ELSE {}
             shadows == LastShadows(t)
         IN  /\ Len(shadows) = Cardinality(storing)
             /\ \A n \in storing :
                  Cardinality({m \in DOMAIN shadows :
                                 shadows[m].position[Len(shadows[m].position)] = n - 1}) = 1
             /\ \A m, k \in DOMAIN shadows :
                  m < k => shadows[m].position[Len(shadows[m].position)]
                             < shadows[k].position[Len(shadows[k].position)]
    /\ ~use_shadow_photons =>
         /\ \A t \in Threads : shadow_vecs[t] = <<>>
         /\ maps.shadow = <<>>
         /\ linear_maps.shadow = <<>>
         /\ num_photons.shadow = 0

\* A scan that skips a surface that cannot reflect diffusely and is cut by the
\* depth test before the last surface on its ray.
C18_Witness ==
    /\ use_shadow_photons
    /\ max_ray_depth = 1
    /\ \E t \in Threads :
         /\ last_hit[t].scanned
         /\ last_hit[t].isects = <<FALSE, TRUE, TRUE>>
         /\ Len(LastShadows(t)) = 1

---------------------------------------------------------------------------
\* The per-thread photon vectors while the workers run.

\* The four vectors of thread t.
VecsOf(t) == <<direct_vecs[t], indirect_vecs[t], caustic_vecs[t], shadow_vecs[t]>>

\* C19: during the emission phase worker i appends only to direct_vecs[i],
\* indirect_vecs[i], caustic_vecs[i] and shadow_vecs[i], the appends of the
\* shadow-photon scans it spawns included; no step of one worker writes a vector
\* of another, whatever the order in which the workers pull chunks and run.
C19_WorkerWritesOwnVectors ==
    /\ [](\A i \in Threads : \A v \in 1 .. 4 : \A n \in DOMAIN VecsOf(i)[v] :
            VecsOf(i)[v][n].position[1] = i)
    /\ [][main.pc \in {"spawn", "join_print", "join"} =>
            \A i \in Threads :
              <<direct_vecs'[i], indirect_vecs'[i], caustic_vecs'[i], shadow_vecs'[i]>>
                  # VecsOf(i)
              => /\ worker[i].pc = "emitPhoton"
                 /\ worker'[i] # worker[i]
                 /\ \A j \in Threads \ {i} :
                      /\ worker'[j] = worker[j]
                      /\ <<direct_vecs'[j], indirect_vecs'[j], caustic_vecs'[j],
                           shadow_vecs'[j]>> = VecsOf(j)]_vars

\* Two workers in the middle of their paths, each with a photon and a shadow
\* photon in its own vectors.
C19_Witness ==
    /\ num_threads = 2
    /\ \A t \in Threads :
         /\ worker[t].pc = "emitPhoton"
         /\ direct_vecs[t] # <<>>
         /\ shadow_vecs[t] # <<>>

---------------------------------------------------------------------------
\* The chunks of a light.

\* The sizes of the chunks packaged for light i, in the order of work_vec.
ChunkSizes(i) ==
    LET chunks == SelectSeq(work_vec, LAMBDA w : w.light = i)
    IN  [k \in 1 .. Len(chunks) |-> chunks[k].num_emissions]

\* C20: the chunks packaged for a light with n emissions sum to exactly n, each
\* holds between 1 and EPW emissions, at most one holds fewer than EPW, and a
\* light with no emission gets no chunk.
C20_ChunksPartitionEmissions ==
    /\ \A i \in DOMAIN budget.num_light_emissions :
         LET n == budget.num_light_emissions[i]
             sizes == ChunkSizes(i)
         IN  /\ Sum(sizes) = n
             /\ \A k \in DOMAIN sizes : 1 <= sizes[k] /\ sizes[k] <= EPW
             /\ Cardinality({k \in DOMAIN sizes : sizes[k] < EPW}) <= 1
             /\ n = 0 => sizes = <<>>
    /\ \A k \in DOMAIN work_vec : work_vec[k].light \in DOMAIN budget.num_light_emissions

\* A light whose emissions fill whole chunks and one smaller chunk.
C20_Witness ==
    /\ budget.pc = "done"
    /\ \E i \in DOMAIN budget.num_light_emissions :
         /\ budget.num_light_emissions[i] > EPW
         /\ budget.num_light_emissions[i] % EPW # 0
         /\ Len(ChunkSizes(i)) >= 2

---------------------------------------------------------------------------
\* Pass 1 under fair scheduling.

\* The steps of worker thread t.
WorkerStep(t) == getWork(t) \/ EmitLoop(t) \/ emitPhoton(t)

\* The steps of the main thread.
MainStep == Spawn \/ JoinPrint \/ Join \/ Aggregate \/ Linearise

\* Every thread that can run is eventually run: the main thread, each worker and
\* the progress thread.
SpecFair ==
    /\ Spec
    /\ WF_vars(MainStep)
    /\ WF_vars(PrintProgress)
    /\ \A t \in 0 .. MaxThreads - 1 : WF_vars(t \in Threads /\ WorkerStep(t))

\* C21: with at least one worker and fair scheduling pass 1 completes: the work
\* queue becomes empty, the progress thread exits and is joined before the
\* workers, every worker leaves its getWork loop and is joined, and the
\* constructor goes through aggregation and linearisation.
C21_Pass1Completes ==
    /\ <>[](work_queue = <<>>)
    /\ <>[](print_thread.pc = "done")
    /\ <>[](\A t \in 0 .. MaxThreads - 1 : t \in Threads => worker[t].pc = "done")
    /\ [](main.pc = "join_print" ~> main.pc = "join")
    /\ [](main.pc = "join" ~> main.pc = "aggregate")
    /\ [](main.pc = "aggregate" ~> main.pc = "linearise")
    /\ <>[](main.pc = "done")
    /\ [](main.pc \in {"join", "aggregate", "linearise", "done"} => print_thread.pc = "done")

\* The constructor is done after two workers shared the chunks of the queue.
C21_Witness ==
    /\ main.pc = "done"
    /\ num_threads = MaxThreads
    /\ \A t \in Threads : worker[t].emitted > 0
    /\ linear_maps.direct # <<>>

---------------------------------------------------------------------------
\* Pass 2 of both variants in a scene with emissive surfaces.

\* Largest emittance of a material.
MaxEmittance == 1

InitReturn ==
    /\ variant \in {"current", "earlier"}
    /\ caustic_factor = CFDen
    /\ max_ray_depth = 2
    /\ min_ray_depth = 0
    /\ use_shadow_photons = TRUE
    /\ num_threads = 1
    /\ scene = [open |-> TRUE, types |-> Types, rhos |-> Rhos, runs |-> {<<>>},
                emittances |-> 0 .. MaxEmittance, survives |-> {5, 10}]
    /\ work_queue = <<>>
    /\ worker = [t \in Threads |-> [UnbornWorker EXCEPT !.pc = "joined"]]
    /\ direct_vecs = EmptyVecs
    /\ indirect_vecs = EmptyVecs
    /\ caustic_vecs = EmptyVecs
    /\ shadow_vecs = EmptyVecs
    /\ main = [pc |-> "done", thread |-> num_threads]
    /\ print_thread = [pc |-> "joined"]
    /\ maps \in [Kinds -> MapsOf(1)]
    /\ maps.caustic = <<>>
    /\ maps.direct = <<>>
    /\ linear_maps = [k \in Kinds |-> LinearOctree(maps[k])]
    /\ num_photons = [k \in Kinds |-> Len(maps[k])]
    /\ last_hit = [t \in Threads |-> NoHit]
    /\ appended = [k \in Kinds |-> {}]
    /\ NoInteractionYet
    /\ Budgeted
    /\ NoSearch
    /\ NoRuns
    /\ k_nearest_photons = 1
    /\ direct_visualization = FALSE
    /\ render = [t \in RenderThreads |-> [pc |-> "call", ray |-> EmittedRay]]
    /\ sampled = NotSampled

SpecReturn == InitReturn /\ [][NextEstimate]_vars

\* C22: a camera path that arrives from a diffuse bounce (depth > 0, specular
\* flag false) at a hit whose type is REFLECT or REFRACT gets zero radiance and
\* does not recurse: the emittance term of the current variant is zero there, as
\* is the 0 the earlier variant returns.
C22_DiffuseArrivalAtSpecularIsZero ==
    (/\ sampled.type \in {"REFLECT", "REFRACT"}
     /\ sampled.ray.depth > 0
     /\ ~sampled.ray.specular)
    => /\ sampled.branch = "emittance"
       /\ ~sampled.recursed
       /\ ~sampled.sample_direct
       /\ sampled.emittance = 0
       /\ sampled.radiance = 0
       /\ render[sampled.thread].pc = "done"

\* The current variant's path, reflected diffusely once, meets an emissive mirror
\* beyond min_ray_depth.
C22_Witness ==
    /\ variant = "current"
    /\ sampled.branch = "emittance"
    /\ sampled.type = "REFLECT"
    /\ sampled.ray.depth = 1
    /\ sampled.material_emittance = MaxEmittance
    /\ min_ray_depth < sampled.ray.depth

---------------------------------------------------------------------------
\* The debug switch.

\* C23: with direct_visualization set, sampleRay at a diffuse hit returns the
\* estimate made of the photon maps' searches only: it does not call sampleDirect
\* and does not recurse, whatever the depth and the specular flag of the ray, the
\* distance of the hit, the number of photons found and the shadow photons.
C23_VisualizationEstimatesFromMaps ==
    direct_visualization /\ sampled.type = "DIFFUSE" =>
      /\ sampled.branch = "estimate"
      /\ ~sampled.recursed
      /\ ~sampled.sample_direct
      /\ render[sampled.thread].pc = "done"
      /\ sampled.indirect_photons = IndirectFound
      /\ sampled.direct_photons = DirectFound
      /\ sampled.caustic_photons =
           knnSearch(linear_maps.caustic, sampled.position, k_nearest_photons,
                     max_caustic_radius)

\* A diffuse hit after a specular bounce, where the indirect search is underfilled,
\* no direct photon is found and no shadow photon is near.
C23_Witness ==
    /\ direct_visualization
    /\ use_shadow_photons
    /\ sampled.type = "DIFFUSE"
    /\ sampled.ray.depth = 1
    /\ sampled.ray.specular
    /\ Len(IndirectFound) < k_nearest_photons
    /\ IndirectFound # <<>>
    /\ DirectFound = <<>>
    /\ ~Near(linear_maps.shadow, max_radius)

====
